---- MODULE Spec2Model ----
(***************************************************************************)
(* A model of the symbol cross-reference core of asm-code-lens:            *)
(*   src/src/grep.ts            grep, grepMultiple, grepTextDocument,      *)
(*                              getRegExFromLabel, reduceLocations,        *)
(*                              getModule                                  *)
(*   src/src/RenameProvider.ts  rename, renameInFile                       *)
(*                                                                         *)
(* Strings are sequences of one-character strings, so that joins, splits,  *)
(* substring searches and splices are computed rather than assumed.        *)
(* Each routine has a specification of its own (SpecModule, SpecRegex,     *)
(* SpecScan, SpecGrep, SpecReduce, SpecRename); the variables of the other *)
(* routines stay at their idle values.                                     *)
(***************************************************************************)
EXTENDS Integers, Sequences, FiniteSets, TLC

VARIABLES
    pc,             \* position of the routine under study
    \* ---- getModule (grep.ts 542-568)
    lines,          \* the 'lines' argument
    len,            \* the 'len' argument (exclusive bound)
    row,            \* loop variable: number of rows scanned so far
    modules,        \* the stack 'modules'
    mLabel,         \* the returned string
    \* ---- getRegExFromLabel (grep.ts 385-409)
    label,          \* the 'label' argument
    regex,          \* the returned RegExp: its source and its flags
    \* ---- the per-line scan of grep (171-225) and grepTextDocument (293-333)
    scanMode,       \* "disk": the loop of grep, "doc": the loop of grepTextDocument
    scanRegex,      \* the 'regex' argument
    lastIndex,      \* regex.lastIndex
    scanLines,      \* the lines, comments stripped
    index,          \* loop variable 'index' (grep) or 'line' (grepTextDocument)
    lineMatches,    \* 'lineMatches' of the current line (grep only)
    fileMatches,    \* 'fileMatches' (grep) or 'matches' (grepTextDocument)
    \* ---- grep (140-252) and grepMultiple (263-284)
    rootFolder,     \* the 'rootFolder' argument
    languageId,     \* the 'languageId' argument
    foundFiles,     \* what vscode.workspace.findFiles returns
    textDocuments,  \* vscode.workspace.textDocuments
    regexes,        \* the 'regexes' argument of grepMultiple
    regexIdx,       \* number of regexes grepMultiple is done with
    uris,           \* 'uris' of grep
    docs,           \* 'docs' of grep: the dirty documents of the language
    fileIdx,        \* number of entries of 'uris' grep is done with
    allMatches,     \* the Map 'allMatches', its entries in insertion order
    thrown,         \* whether the try block of this grep call was left by an exception
    locations,      \* what the last grep call returned
    allLocations,   \* 'allLocations' of grepMultiple
    grepped,        \* history: what each grep call returned
    \* ---- reduceLocations (428-530)
    redTextDocuments,   \* vscode.workspace.textDocuments
    redLocations,       \* the 'locations' argument
    docFileName,        \* the 'docFileName' argument
    position,           \* the 'position' argument
    removeOwnLocation,  \* the 'removeOwnLocation' argument
    checkFullName,      \* the 'checkFullName' argument
    redDocs,            \* 'docs': the dirty documents
    searchLabel,        \* 'searchLabel': label and moduleLabel of the origin
    redLocs,            \* 'redLocs': the locations left, by position in the argument
    redI,               \* the loop variable 'i', counted from 1
    filesInfo,          \* the cache 'filesInfo'
    locLabels,          \* label and moduleLabel assigned to each location object
    fileReads,          \* history: the files whose lines were read
    \* ---- RenameProvider.rename / renameInFile
    disk,               \* the text of each file on disk
    renTextDocuments,   \* vscode.workspace.textDocuments
    newName,            \* the 'newName' argument
    reducedLocations,   \* 'reducedLocations'
    wsEdit,             \* 'wsEdit': the replacements handed to the editor
    fileMap,            \* 'fileMap': the ranges per disk file
    fileMapIdx,         \* position of the loop over fileMap, counted from 1
    pendingWrites,      \* the write streams created and not yet finished
    rewrites,           \* history: what each renameInFile read and handed to its stream
    written,            \* history: the files whose stream has written
    rejected,           \* history: the files whose renameInFile promise was rejected
    writeFailed         \* history: the files whose stream has failed

modVars == <<lines, len, row, modules, mLabel>>
rexVars == <<label, regex>>
scanVars == <<scanMode, scanRegex, lastIndex, scanLines, index, lineMatches, fileMatches>>
grepVars == <<rootFolder, languageId, foundFiles, textDocuments, regexes, regexIdx,
              uris, docs, fileIdx, allMatches, thrown, locations, allLocations, grepped>>
redVars == <<redTextDocuments, redLocations, docFileName, position, removeOwnLocation,
             checkFullName, redDocs, searchLabel, redLocs, redI, filesInfo, locLabels,
             fileReads>>
renVars == <<disk, renTextDocuments, newName, reducedLocations, wsEdit, fileMap,
             fileMapIdx, pendingWrites, rewrites, written, rejected, writeFailed>>
vars == <<pc, modVars, rexVars, scanVars, grepVars, redVars, renVars>>

\* For each routine, the variables of all the other routines.
notModVars == <<rexVars, scanVars, grepVars, redVars, renVars>>
notRexVars == <<modVars, scanVars, grepVars, redVars, renVars>>
notScanVars == <<modVars, rexVars, grepVars, redVars, renVars>>
notGrepVars == <<modVars, rexVars, scanVars, redVars, renVars>>
notReduceVars == <<modVars, rexVars, scanVars, grepVars, renVars>>
notRenameVars == <<modVars, rexVars, scanVars, grepVars, redVars>>

(***************************************************************************)
(* The state of a routine that is not running.                             *)
(***************************************************************************)
ModuleIdle ==
    /\ lines = <<>> /\ len = 0 /\ row = 0 /\ modules = <<>> /\ mLabel = <<>>

RegexIdle == label = <<>> /\ regex = <<>>

ScanIdle ==
    /\ scanMode = "" /\ scanRegex = <<>> /\ lastIndex = 0 /\ scanLines = <<>>
    /\ index = 0 /\ lineMatches = <<>> /\ fileMatches = <<>>

GrepIdle ==
    /\ rootFolder = <<>> /\ languageId = "" /\ foundFiles = <<>>
    /\ textDocuments = <<>> /\ regexes = <<>> /\ regexIdx = 0 /\ uris = <<>>
    /\ docs = <<>> /\ fileIdx = 0 /\ allMatches = <<>> /\ thrown = FALSE
    /\ locations = <<>> /\ allLocations = <<>> /\ grepped = <<>>

ReduceIdle ==
    /\ redTextDocuments = <<>> /\ redLocations = <<>> /\ docFileName = <<>>
    /\ position = <<>> /\ removeOwnLocation = FALSE /\ checkFullName = FALSE
    /\ redDocs = <<>> /\ searchLabel = <<>> /\ redLocs = <<>> /\ redI = 0
    /\ filesInfo = <<>> /\ locLabels = <<>> /\ fileReads = <<>>

RenameIdle ==
    /\ disk = <<>> /\ renTextDocuments = <<>> /\ newName = <<>>
    /\ reducedLocations = <<>> /\ wsEdit = <<>> /\ fileMap = <<>> /\ fileMapIdx = 0
    /\ pendingWrites = <<>> /\ rewrites = <<>> /\ written = {} /\ rejected = {}
    /\ writeFailed = {}

NotModIdle == RegexIdle /\ ScanIdle /\ GrepIdle /\ ReduceIdle /\ RenameIdle
NotRexIdle == ModuleIdle /\ ScanIdle /\ GrepIdle /\ ReduceIdle /\ RenameIdle
NotScanIdle == ModuleIdle /\ RegexIdle /\ GrepIdle /\ ReduceIdle /\ RenameIdle
NotGrepIdle == ModuleIdle /\ RegexIdle /\ ScanIdle /\ ReduceIdle /\ RenameIdle
NotReduceIdle == ModuleIdle /\ RegexIdle /\ ScanIdle /\ GrepIdle /\ RenameIdle
NotRenameIdle == ModuleIdle /\ RegexIdle /\ ScanIdle /\ GrepIdle /\ ReduceIdle

(***************************************************************************)
(* Bounds of the model.                                                    *)
(***************************************************************************)
MaxLines == 5       \* lines of a file handed to getModule
MaxLabelLen == 5    \* characters of a label handed to getRegExFromLabel
MaxLineLen == 3     \* characters of a line handed to the per-line scan
MaxUris == 2        \* files the host's file search returns
MaxRegexes == 2     \* regexes handed to grepMultiple
MaxLocations == 3   \* locations handed to reduceLocations
MaxMatches == 6     \* matches collected by one scan before the model stops following it
MaxRenameLines == 3 \* lines of the file rename rewrites

(***************************************************************************)
(* Strings.                                                                *)
(***************************************************************************)
RECURSIVE SeqsUpTo(_, _)
\* All sequences over S of length at most n.
SeqsUpTo(S, n) ==
    IF n = 0 THEN {<<>>}
    ELSE LET shorter == SeqsUpTo(S, n - 1)
         IN shorter \cup {Append(s, c) : s \in {t \in shorter : Len(t) = n - 1}, c \in S}

RECURSIVE JoinWith(_, _)
\* Array.prototype.join: the elements of 'parts' separated by 'sep'.
JoinWith(parts, sep) ==
    IF parts = <<>> THEN <<>>
    ELSE IF Len(parts) = 1 THEN parts[1]
    ELSE parts[1] \o sep \o JoinWith(Tail(parts), sep)

(***************************************************************************)
(* getModule.  A line is abstracted to what the two regular expressions of *)
(* CommonRegexes see in it: the directive and, for an opening directive,   *)
(* the captured name.                                                      *)
(***************************************************************************)
ModuleLineKinds ==
    { [kind |-> "MODULE",    name |-> <<"a">>],
      [kind |-> "STRUCT",    name |-> <<"b">>],
      [kind |-> "ENDMODULE", name |-> <<>>],
      [kind |-> "ENDSTRUCT", name |-> <<>>],
      [kind |-> "CODE",      name |-> <<>>] }

\* regexModuleStruct().exec(line): the match, or NoMatch.
NoMatch == [found |-> FALSE]
MatchModule(line) ==
    IF line.kind \in {"MODULE", "STRUCT"}
    THEN [found |-> TRUE, name |-> line.name]
    ELSE NoMatch

\* regexEndModuleStruct().exec(line) matched.
MatchEndmodule(line) == line.kind \in {"ENDMODULE", "ENDSTRUCT"}

\* Mutant of Pop: removes the outermost entry (a shift instead of a pop).
PopFirst(stack) == IF stack = <<>> THEN <<>> ELSE Tail(stack)

\* Mutant of Pop: the close of a scope closes all scopes.
PopAll(stack) == <<>>

\* Array.prototype.pop on the stack: popping an empty array leaves it empty.
Pop(stack) == IF stack = <<>> THEN <<>> ELSE SubSeq(stack, 1, Len(stack) - 1)

\* One iteration of the loop of getModule on 'line'.
ModuleStep(stack, line) ==
    IF MatchModule(line).found THEN Append(stack, MatchModule(line).name)
    ELSE IF MatchEndmodule(line) THEN Pop(stack)
    ELSE stack

\* modules.join('.')
GetModuleJoin(stack) == JoinWith(stack, <<".">>)

RECURSIVE ScanModules(_, _)
\* The stack after the loop of getModule has run over rows 0..n-1.
ScanModules(ls, n) ==
    IF n = 0 THEN <<>> ELSE ModuleStep(ScanModules(ls, n - 1), ls[n])

\* getModule(lines, len)
GetModule(ls, n) == GetModuleJoin(ScanModules(ls, n))


InitModule ==
    /\ pc = "scan"
    /\ NotModIdle
    /\ lines \in SeqsUpTo(ModuleLineKinds, MaxLines)
    /\ len \in 0..Len(lines)
    /\ row = 0
    /\ modules = <<>>
    /\ mLabel = <<>>

\* A row holding MODULE or STRUCT: push the captured name.
GetModuleOpen ==
    /\ pc = "scan" /\ row < len
    /\ MatchModule(lines[row + 1]).found
    /\ modules' = ModuleStep(modules, lines[row + 1])
    /\ row' = row + 1
    /\ UNCHANGED <<pc, lines, len, mLabel, notModVars>>

\* A row holding ENDMODULE or ENDSTRUCT: pop.
GetModuleClose ==
    /\ pc = "scan" /\ row < len
    /\ ~MatchModule(lines[row + 1]).found
    /\ MatchEndmodule(lines[row + 1])
    /\ modules' = ModuleStep(modules, lines[row + 1])
    /\ row' = row + 1
    /\ UNCHANGED <<pc, lines, len, mLabel, notModVars>>

\* Any other row.
GetModuleOther ==
    /\ pc = "scan" /\ row < len
    /\ ~MatchModule(lines[row + 1]).found
    /\ ~MatchEndmodule(lines[row + 1])
    /\ modules' = ModuleStep(modules, lines[row + 1])
    /\ row' = row + 1
    /\ UNCHANGED <<pc, lines, len, mLabel, notModVars>>

\* The loop is over: join and return.
GetModuleReturn ==
    /\ pc = "scan" /\ row = len
    /\ mLabel' = GetModuleJoin(modules)
    /\ pc' = "done"
    /\ UNCHANGED <<lines, len, row, modules, notModVars>>

NextModule ==
    \/ GetModuleOpen
    \/ GetModuleClose
    \/ GetModuleOther
    \/ GetModuleReturn

SpecModule == InitModule /\ [][NextModule]_vars

(***************************************************************************)
(* C1.  The scopes open at a bound, stated by counting and not by a stack. *)
(***************************************************************************)
IsOpenLine(l) == l.kind \in {"MODULE", "STRUCT"}
IsCloseLine(l) == l.kind \in {"ENDMODULE", "ENDSTRUCT"}
Opens(ls, a, b) == Cardinality({k \in a..b : IsOpenLine(ls[k])})
Closes(ls, a, b) == Cardinality({k \in a..b : IsCloseLine(ls[k])})

\* The scope opened on row i (1-based) is not closed on rows i+1..n: no row
\* j in between is the close that brings the nesting below the level of i.
StillOpen(ls, i, n) ==
    /\ IsOpenLine(ls[i])
    /\ \A j \in (i + 1)..n : Closes(ls, i + 1, j) <= Opens(ls, i + 1, j)

\* The open row a close row j answers: the innermost scope still open just
\* before row j, or 0 when none is open.
MatchingOpen(ls, j) ==
    LET open == {i \in 1..(j - 1) : StillOpen(ls, i, j - 1)}
    IN IF open = {} THEN 0 ELSE CHOOSE i \in open : \A k \in open : k <= i

CloseKind(k) == IF k = "MODULE" THEN "ENDMODULE" ELSE "ENDSTRUCT"

\* Every ENDMODULE/ENDSTRUCT closes an open scope of its own kind.
Balanced(ls) ==
    \A j \in 1..Len(ls) :
        IsCloseLine(ls[j]) =>
            /\ MatchingOpen(ls, j) > 0
            /\ ls[j].kind = CloseKind(ls[MatchingOpen(ls, j)].kind)

RECURSIVE OpenNames(_, _, _)
\* The names of the scopes still open at bound n among rows i..n, outermost first.
OpenNames(ls, i, n) ==
    IF i > n THEN <<>>
    ELSE (IF StillOpen(ls, i, n) THEN <<ls[i].name>> ELSE <<>>) \o OpenNames(ls, i + 1, n)

\* C1: for balanced nesting, getModule(lines, len) is the '.'-join, outermost
\* first, of the names of exactly the scopes opened on rows 0..len-1 and not
\* closed there; closed siblings and the row at index len contribute nothing.
C1_GetModuleOpenScopes ==
    (pc = "done" /\ Balanced(lines)) =>
        mLabel = JoinWith(OpenNames(lines, 1, len), <<".">>)

\* C1 witness: a balanced file with a sibling scope closed before the bound,
\* two nested scopes still open, and an opening row at the bound itself.
C1_Witness ==
    /\ pc = "done" /\ Balanced(lines)
    /\ len < Len(lines) /\ IsOpenLine(lines[len + 1])
    /\ \E i \in 1..len : IsOpenLine(lines[i]) /\ ~StillOpen(lines, i, len)
    /\ mLabel = <<"b", ".", "a">>

(***************************************************************************)
(* getRegExFromLabel.  The source of the regular expression is a sequence  *)
(* of tokens: a literal character, "." (any character), "\\." (a literal   *)
(* dot) and "\\w*" (any run of word characters).                           *)
(***************************************************************************)
LabelChars == {"a", "b", "."}
Wild == "\\w*"
EscDot == "\\."

\* String.prototype.indexOf(c): the 0-based index of the first c, or -1.
IndexOfChar(s, c) ==
    IF \E i \in 1..Len(s) : s[i] = c
    THEN (CHOOSE i \in 1..Len(s) : s[i] = c /\ \A j \in 1..(i - 1) : s[j] # c) - 1
    ELSE -1

\* String.prototype.lastIndexOf(c): the 0-based index of the last c, or -1.
LastIndexOfChar(s, c) ==
    IF \E i \in 1..Len(s) : s[i] = c
    THEN (CHOOSE i \in 1..Len(s) : s[i] = c /\ \A j \in (i + 1)..Len(s) : s[j] # c) - 1
    ELSE -1

\* String.prototype.substring(a, b) and substring(a), 0-based, end excluded;
\* an index outside the string counts as the nearest end of it.
ClampIndex(s, i) == IF i < 0 THEN 0 ELSE IF i > Len(s) THEN Len(s) ELSE i
Substring(s, a, b) ==
    LET x == ClampIndex(s, a)
        y == ClampIndex(s, b)
    IN IF x <= y THEN SubSeq(s, x + 1, y) ELSE SubSeq(s, y + 1, x)
SubstringFrom(s, a) == SubSeq(s, ClampIndex(s, a) + 1, Len(s))

RECURSIVE RegexPrepareFuzzy(_)
\* CommonRegexes.regexPrepareFuzzy: every character preceded by \w*.
RegexPrepareFuzzy(s) ==
    IF s = <<>> THEN <<>> ELSE <<Wild, s[1]>> \o RegexPrepareFuzzy(Tail(s))

RECURSIVE EscapeDots(_)
\* prefix.replace(/(\.)/g, '\\.')
EscapeDots(s) ==
    IF s = <<>> THEN <<>>
    ELSE <<(IF s[1] = "." THEN EscDot ELSE s[1])>> \o EscapeDots(Tail(s))

\* getRegExFromLabel(label)
GetRegExFromLabel(lbl) ==
    LET k == IndexOfChar(lbl, ".")
        prefix == IF k < 0 THEN <<>> ELSE Substring(lbl, 0, k + 1)
        lastPart == IF k < 0 THEN lbl ELSE SubstringFrom(lbl, k + 1)
        lastRegexStr == RegexPrepareFuzzy(lastPart) \o <<Wild>>
    IN [source |-> EscapeDots(prefix) \o lastRegexStr, flags |-> "i"]

\* Dotted names with no empty segment.
WellFormedLabels ==
    {l \in SeqsUpTo(LabelChars, MaxLabelLen) :
        /\ l # <<>> /\ l[1] # "." /\ l[Len(l)] # "."
        /\ \A i \in 1..(Len(l) - 1) : ~(l[i] = "." /\ l[i + 1] = ".")}

InitRegex ==
    /\ pc = "compile"
    /\ NotRexIdle
    /\ label \in WellFormedLabels
    /\ regex = <<>>

\* One call of getRegExFromLabel.
CompileLabel ==
    /\ pc = "compile"
    /\ regex' = GetRegExFromLabel(label)
    /\ pc' = "done"
    /\ UNCHANGED <<label, notRexVars>>

NextRegex == CompileLabel

SpecRegex == InitRegex /\ [][NextRegex]_vars

\* C10 as claimed: the label is split at its LAST dot; all up to and including
\* it is kept literally (dots escaped) and only the segment after it is made
\* fuzzy, so the middle segments of a label with two dots are literal.
C10_SplitAtLastDot ==
    pc = "done" =>
        LET k == LastIndexOfChar(label, ".")
        IN regex.source =
              EscapeDots(Substring(label, 0, k + 1))
                 \o RegexPrepareFuzzy(SubstringFrom(label, k + 1)) \o <<Wild>>

(***************************************************************************)
(* The per-line scan.  A search regex is the word-delimited literal search *)
(* for 'word' built by the regex factories, optionally behind a capturing  *)
(* group that consumes the text before the word:                           *)
(*     group:    /(.*?)\bword\b/      no group:    /\bword\b/              *)
(* each with or without the g flag.                                        *)
(***************************************************************************)
WordChars == {"a", "b"}
ScanChars == {"a", " "}
SearchWord == <<"a">>

SearchRegexes == [global : BOOLEAN, group : BOOLEAN, word : {SearchWord}]

\* 'word' stands at 0-based column p of 'line' between two word boundaries.
OccursAt(line, word, p) ==
    /\ p + Len(word) <= Len(line)
    /\ SubSeq(line, p + 1, p + Len(word)) = word
    /\ (p = 0 \/ line[p] \notin WordChars)
    /\ (p + Len(word) = Len(line) \/ line[p + Len(word) + 1] \notin WordChars)

\* RegExp.prototype.exec: the match (index, match[0], the captures) and the
\* value it leaves in lastIndex.  Without the g flag lastIndex is neither
\* read nor written.
Exec(re, line, last) ==
    LET from == IF re.global THEN last ELSE 0
        cands == {p \in from..Len(line) : OccursAt(line, re.word, p)}
    IN IF cands = {}
       THEN [found |-> FALSE, lastIndex |-> IF re.global THEN 0 ELSE last]
       ELSE LET p == CHOOSE q \in cands : \A r \in cands : q <= r
                idx == IF re.group THEN from ELSE p
            IN [found |-> TRUE,
                index |-> idx,
                text |-> SubSeq(line, idx + 1, p + Len(re.word)),
                groups |-> IF re.group THEN <<SubSeq(line, from + 1, p)>> ELSE <<>>,
                lastIndex |-> IF re.global THEN p + Len(re.word) ELSE last]

RECURSIVE SumGroupLengths(_)
SumGroupLengths(groups) ==
    IF groups = <<>> THEN 0 ELSE Len(groups[1]) + SumGroupLengths(Tail(groups))

\* Mutant of CalcStart: the capture groups are not added.
CalcStartNoGroups(match) == match.index

\* grep.ts 193-201: match.index plus the lengths of the captures 1..N.
CalcStart(match) == match.index + SumGroupLengths(match.groups)

\* CommonRegexes.calcStartIndex(match), used by grepTextDocument.
CalcStartIndex(match) == match.index + SumGroupLengths(match.groups)

\* match.index + match[0].length
CalcEnd(match) == match.index + Len(match.text)

\* The record pushed for a match on line 'idx'.
FileMatch(idx, line, start, end) ==
    [line |-> idx, start |-> start, end |-> end, lineContents |-> line]

ScanLinePool == SeqsUpTo(ScanChars, MaxLineLen)

\* Files of one line and of two lines: the second line is scanned with
\* whatever the first left in the regex.
ScanFiles == {<<l>> : l \in ScanLinePool} \cup {<<l, m>> : l, m \in ScanLinePool}

InitScan ==
    /\ pc = "line"
    /\ NotScanIdle
    /\ scanMode \in {"disk", "doc"}
    /\ scanRegex \in SearchRegexes
    /\ lastIndex \in {0, 1}          \* as the caller left the RegExp
    /\ scanLines \in ScanFiles
    /\ index = 0
    /\ lineMatches = <<>>
    /\ fileMatches = [set |-> scanMode = "doc", items |-> <<>>]

\* grep 183-184: an empty line is skipped.
ScanSkipEmpty ==
    /\ pc = "line" /\ index < Len(scanLines)
    /\ scanMode = "disk" /\ Len(scanLines[index + 1]) = 0
    /\ index' = index + 1
    /\ UNCHANGED <<pc, scanMode, scanRegex, lastIndex, scanLines, lineMatches,
                   fileMatches, notScanVars>>

\* Mutant of ScanBeginLine: lastIndex is not reset.
ScanBeginLineNoReset ==
    /\ pc = "line" /\ index < Len(scanLines)
    /\ (scanMode = "disk" => Len(scanLines[index + 1]) # 0)
    /\ lineMatches' = <<>>
    /\ pc' = "exec"
    /\ UNCHANGED <<scanMode, scanRegex, lastIndex, scanLines, index, fileMatches,
                   notScanVars>>

\* grep 185-186, grepTextDocument 310: lastIndex is reset, the line begins.
ScanBeginLine ==
    /\ pc = "line" /\ index < Len(scanLines)
    /\ (scanMode = "disk" => Len(scanLines[index + 1]) # 0)
    /\ lastIndex' = 0
    /\ lineMatches' = <<>>
    /\ pc' = "exec"
    /\ UNCHANGED <<scanMode, scanRegex, scanLines, index, fileMatches,
                   notScanVars>>

\* The line is over (grep 221-223): its matches go to the file's array.
EndOfLine(lm, fm) ==
    /\ fileMatches' = IF scanMode = "disk" /\ fm.set
                       THEN [fm EXCEPT !.items = @ \o lm] ELSE fm
    /\ lineMatches' = lm
    /\ index' = index + 1
    /\ pc' = "line"

\* One iteration of the do-while that finds a match.
ScanExecMatch ==
    /\ pc = "exec"
    /\ Len(lineMatches) < MaxMatches /\ Len(fileMatches.items) < MaxMatches
    /\ LET line == scanLines[index + 1]
           m == Exec(scanRegex, line, lastIndex)
       IN /\ m.found
          /\ lastIndex' = m.lastIndex
          /\ IF scanMode = "disk"
             THEN LET rec == FileMatch(index, line, CalcStart(m), CalcEnd(m))
                      lm == <<rec>> \o lineMatches          \* unshift
                      fm == [set |-> TRUE, items |-> fileMatches.items]
                  IN IF scanRegex.global
                     THEN /\ lineMatches' = lm /\ fileMatches' = fm
                          /\ UNCHANGED <<index, pc>>
                     ELSE EndOfLine(lm, fm)
             ELSE LET rec == FileMatch(index, line, CalcStartIndex(m), CalcEnd(m))
                      fm == [fileMatches EXCEPT !.items = Append(@, rec)]
                  IN IF scanRegex.global
                     THEN /\ fileMatches' = fm
                          /\ UNCHANGED <<lineMatches, index, pc>>
                     ELSE EndOfLine(lineMatches, fm)
    /\ UNCHANGED <<scanMode, scanRegex, scanLines, notScanVars>>

\* The iteration of the do-while that finds nothing: break.
ScanExecBreak ==
    /\ pc = "exec"
    /\ LET m == Exec(scanRegex, scanLines[index + 1], lastIndex)
       IN /\ ~m.found
          /\ lastIndex' = m.lastIndex
          /\ EndOfLine(lineMatches, fileMatches)
    /\ UNCHANGED <<scanMode, scanRegex, scanLines, notScanVars>>

\* All lines are scanned.
ScanReturn ==
    /\ pc = "line" /\ index = Len(scanLines)
    /\ pc' = "done"
    /\ UNCHANGED <<scanVars, notScanVars>>

NextScan ==
    \/ ScanSkipEmpty
    \/ ScanBeginLine
    \/ ScanExecMatch
    \/ ScanExecBreak
    \/ ScanReturn

SpecScan == InitScan /\ [][NextScan]_vars

\* The same loops for any regex: also one that matches the empty string
\* wherever no word character stands on either side, such as
\* /(?<!\w)(?!\w)/, written here as the search for the empty word.
EmptyWord == <<>>
AnyRegexes == [global : BOOLEAN, group : BOOLEAN, word : {SearchWord, EmptyWord}]

InitLoop ==
    /\ pc = "line"
    /\ NotScanIdle
    /\ scanMode \in {"disk", "doc"}
    /\ scanRegex \in AnyRegexes
    /\ lastIndex \in {0, 1}
    /\ scanLines \in ScanFiles
    /\ index = 0
    /\ lineMatches = <<>>
    /\ fileMatches = [set |-> scanMode = "doc", items |-> <<>>]

SpecLoop == InitLoop /\ [][NextScan]_vars

\* The 0-based columns at which the search word occurs in 'line'.
Occurrences(line, word) == {p \in 0..Len(line) : OccursAt(line, word, p)}

\* The positions in fileMatches.items of the matches of line idx.
MatchesOfLine(idx) ==
    {k \in 1..Len(fileMatches.items) : fileMatches.items[k].line = idx}

\* C5: with the g flag, every line yields one raw match per occurrence of the
\* search word (two for a line with two occurrences), the matches of a line
\* are distinct, their ranges [start, end) do not overlap and have
\* start <= end; since lastIndex is reset per line, no occurrence of a later
\* line is skipped.  Holds for the loop of grep and of grepTextDocument.
C5_GlobalScanOneMatchPerOccurrence ==
    (pc = "done" /\ scanRegex.global) =>
        \A idx \in 0..(Len(scanLines) - 1) :
            LET line == scanLines[idx + 1]
                occ == Occurrences(line, scanRegex.word)
                ks == MatchesOfLine(idx)
                items == fileMatches.items
            IN /\ Cardinality(ks) = Cardinality(occ)
               /\ {<<items[k].start, items[k].end>> : k \in ks}
                     = {<<p, p + Len(scanRegex.word)>> : p \in occ}
               /\ \A k \in ks : items[k].start <= items[k].end
               /\ \A k1, k2 \in ks :
                     k1 # k2 => \/ items[k1].end <= items[k2].start
                                \/ items[k2].end <= items[k1].start

\* C5 witness: a global regex with a prefix group has scanned a first line
\* holding two occurrences and a second line holding one at column 0, and
\* all three are found.
C5_Witness ==
    /\ pc = "done" /\ scanRegex.global /\ scanRegex.group
    /\ Len(scanLines) = 2
    /\ Cardinality(Occurrences(scanLines[1], scanRegex.word)) = 2
    /\ 0 \in Occurrences(scanLines[2], scanRegex.word)
    /\ Cardinality(MatchesOfLine(0)) = 2
    /\ Cardinality(MatchesOfLine(1)) = 1

(***************************************************************************)
(* grep and grepMultiple.  Paths and file texts are strings; the disk is   *)
(* fixed, the files the host's search returns, the open documents and the  *)
(* regexes vary.  A whole file is scanned by the operators below, which    *)
(* run the same per-line loop as SpecScan.                                 *)
(***************************************************************************)
\* String.prototype.indexOf(sub): 0-based index of the first occurrence, or -1.
IndexOf(s, sub) ==
    LET at == {i \in 0..(Len(s) - Len(sub)) : SubSeq(s, i + 1, i + Len(sub)) = sub}
    IN IF at = {} THEN -1 ELSE CHOOSE i \in at : \A j \in at : i <= j

RECURSIVE Split(_)
\* String.prototype.split('\n')
Split(text) ==
    LET k == IndexOfChar(text, "\n")
    IN IF k < 0 THEN <<text>>
       ELSE <<Substring(text, 0, k)>> \o Split(SubstringFrom(text, k + 1))

\* Map.prototype.get / set on a Map kept as the sequence of its entries in
\* insertion order: set of a present key replaces the value in place.
MapHas(m, key) == \E i \in 1..Len(m) : m[i].key = key
MapGet(m, key) == m[CHOOSE i \in 1..Len(m) : m[i].key = key].value
MapSet(m, key, value) ==
    IF MapHas(m, key)
    THEN [i \in 1..Len(m) |-> IF m[i].key = key THEN [key |-> key, value |-> value] ELSE m[i]]
    ELSE Append(m, [key |-> key, value |-> value])

RootFolder == <<"/", "p", "/">>
PathX == <<"/", "p", "/", "x">>                  \* under the root
PathY == <<"/", "p", "/", "y">>                  \* under the root
PathNested == <<"/", "q", "/", "p", "/", "x">>   \* holds the root's text, not as a prefix
PathOther == <<"/", "q", "/", "x">>              \* unrelated
GrepPaths == {PathX, PathY, PathNested, PathOther}

\* The content of the disk.
DiskText(path) ==
    CASE path = PathX -> <<"a", " ", "a", "\n", "\n", " ", "a">>
      [] path = PathY -> <<"a", "a", "\n", "a">>
      [] path = PathNested -> <<"a">>
      [] OTHER -> <<" ", "a">>

LanguageIds == {"asm-collection", "asm-list-file"}

\* vscode.workspace.textDocuments: no document, or one open document of PathX.
OpenDocuments ==
    [fileName : {PathX}, isDirty : BOOLEAN, languageId : LanguageIds,
     lines : {<<<<"a">>, <<" ", " ", "a", " ", "a">>>>}]

\* The regexes grepMultiple is called with.
MultiRegexes ==
    { [global |-> TRUE, group |-> TRUE, word |-> SearchWord],
      [global |-> FALSE, group |-> FALSE, word |-> SearchWord] }

\* getTextDocument(filePath, docs): the first document of that file name.
HasTextDocument(filePath, ds) == \E i \in 1..Len(ds) : ds[i].fileName = filePath
GetTextDocument(filePath, ds) ==
    ds[CHOOSE i \in 1..Len(ds) :
          ds[i].fileName = filePath /\ \A j \in 1..(i - 1) : ds[j].fileName # filePath]

RECURSIVE LineLoop(_, _, _, _, _)
\* The do-while over one line: the matches, newest first for grep (unshift),
\* oldest first for grepTextDocument (push).
LineLoop(re, idx, line, last, mode) ==
    LET m == Exec(re, line, last)
    IN IF ~m.found THEN <<>>
       ELSE LET rec == FileMatch(idx, line,
                                 IF mode = "disk" THEN CalcStart(m) ELSE CalcStartIndex(m),
                                 CalcEnd(m))
                rest == IF re.global THEN LineLoop(re, idx, line, m.lastIndex, mode) ELSE <<>>
            IN IF mode = "disk" THEN rest \o <<rec>> ELSE <<rec>> \o rest

RECURSIVE ScanDisk(_, _, _, _)
\* grep 180-224 from line idx on: fm is fileMatches, defined once a match is found.
ScanDisk(re, ls, idx, fm) ==
    IF idx >= Len(ls) THEN fm
    ELSE IF Len(ls[idx + 1]) = 0 THEN ScanDisk(re, ls, idx + 1, fm)
    ELSE LET lm == LineLoop(re, idx, ls[idx + 1], 0, "disk")
             fm2 == IF lm # <<>> THEN [set |-> TRUE, items |-> fm.items \o lm] ELSE fm
         IN ScanDisk(re, ls, idx + 1, fm2)

RECURSIVE GrepTextDocument(_, _, _)
\* grepTextDocument(doc, regex) from line idx on.
GrepTextDocument(re, ls, idx) ==
    IF idx >= Len(ls) THEN <<>>
    ELSE LineLoop(re, idx, ls[idx + 1], 0, "doc") \o GrepTextDocument(re, ls, idx + 1)

\* getCompleteLabel(lineContents, start).label: the run of label characters
\* around column 'start'.
GetCompleteLabel(line, start) ==
    LET isLbl(i) == line[i] \in WordChars \cup {"."}
        froms == {i \in 1..(start + 1) : \A j \in i..start : isLbl(j)}
        tos == {i \in start..Len(line) : \A j \in (start + 1)..i : isLbl(j)}
        from == CHOOSE i \in froms : \A j \in froms : i <= j
        to == CHOOSE i \in tos : \A j \in tos : j <= i
    IN SubSeq(line, from, to)

\* new GrepLocation(vscode.Uri.file(file), range, match), grep 237-247.
GrepLocation(file, match) ==
    [fsPath |-> file,
     line |-> match.line, start |-> match.start, end |-> match.end,
     filePath |-> match.filePath,
     lineContents |-> match.lineContents,
     symbol |-> GetCompleteLabel(match.lineContents, match.start)]

RECURSIVE ToLocations(_)
\* grep 232-249: the locations of all matches, file by file in insertion order.
ToLocations(m) ==
    IF m = <<>> THEN <<>>
    ELSE [i \in 1..Len(m[1].value) |-> GrepLocation(m[1].key, m[1].value[i])]
            \o ToLocations(Tail(m))

WithFilePath(matches, fileName) ==
    [i \in 1..Len(matches) |->
        [line |-> matches[i].line, start |-> matches[i].start, end |-> matches[i].end,
         lineContents |-> matches[i].lineContents, filePath |-> fileName]]

RECURSIVE Dec(_)
\* Number to string, as string concatenation does it.
Dec(n) ==
    LET digit == <<"0", "1", "2", "3", "4", "5", "6", "7", "8", "9">>
    IN IF n < 10 THEN <<digit[n + 1]>> ELSE Dec(n \div 10) \o <<digit[(n % 10) + 1]>>

\* Mutant of DedupKey: the start column is left out of the key.
DedupKeyNoStart(loc) == loc.filePath \o <<":">> \o Dec(loc.line)

\* The handler grepMultiple passes to removeDuplicates, grep 275-279.
DedupKey(loc) == loc.filePath \o <<":">> \o Dec(loc.line) \o <<":">> \o Dec(loc.start)

RECURSIVE RemoveDuplicatesMap(_, _)
RemoveDuplicatesMap(locs, locMap) ==
    IF locs = <<>> THEN locMap
    ELSE RemoveDuplicatesMap(Tail(locs), MapSet(locMap, DedupKey(locs[1]), locs[1]))

\* removeDuplicates(locations, handler): a Map filled in order, then its values.
RemoveDuplicates(locs) ==
    LET locMap == RemoveDuplicatesMap(locs, <<>>)
    IN [i \in 1..Len(locMap) |-> locMap[i].value]

\* Sequences of distinct elements of S, of length at most n.
DistinctSeqsUpTo(S, n) ==
    {s \in SeqsUpTo(S, n) : \A i, j \in 1..Len(s) : i # j => s[i] # s[j]}

InitGrep ==
    /\ pc = "multi"
    /\ NotGrepIdle
    /\ rootFolder = RootFolder
    /\ languageId = "asm-collection"
    /\ foundFiles \in DistinctSeqsUpTo(GrepPaths, MaxUris)
    /\ textDocuments \in {<<>>} \cup {<<d>> : d \in OpenDocuments}
    /\ regexes \in SeqsUpTo(MultiRegexes, MaxRegexes)
    /\ regexIdx = 0
    /\ uris = <<>>
    /\ docs = <<>>
    /\ fileIdx = 0
    /\ allMatches = <<>>
    /\ thrown = FALSE
    /\ locations = <<>>
    /\ allLocations = <<>>
    /\ grepped = <<>>

\* grep 141-148: the call for the next regex; the file search succeeds.
GrepEnumerate ==
    /\ pc = "multi" /\ regexIdx < Len(regexes)
    /\ allMatches' = <<>>
    /\ uris' = foundFiles
    /\ docs' = SelectSeq(textDocuments,
                         LAMBDA d : d.isDirty /\ d.languageId = languageId)
    /\ fileIdx' = 0
    /\ thrown' = FALSE
    /\ pc' = "files"
    /\ UNCHANGED <<rootFolder, languageId, foundFiles, textDocuments, regexes, regexIdx,
                   locations, allLocations, grepped, notGrepVars>>

\* grep 145, 228-230: the file search fails; the exception is caught.
GrepEnumerateThrows ==
    /\ pc = "multi" /\ regexIdx < Len(regexes)
    /\ allMatches' = <<>>
    /\ uris' = <<>>
    /\ docs' = <<>>
    /\ fileIdx' = 0
    /\ thrown' = TRUE
    /\ pc' = "caught"
    /\ UNCHANGED <<rootFolder, languageId, foundFiles, textDocuments, regexes, regexIdx,
                   locations, allLocations, grepped, notGrepVars>>

\* grep 152-154: a file whose path does not hold rootFolder is skipped.
GrepSkipFile ==
    /\ pc = "files" /\ fileIdx < Len(uris)
    /\ IndexOf(uris[fileIdx + 1], rootFolder) < 0
    /\ fileIdx' = fileIdx + 1
    /\ UNCHANGED <<pc, rootFolder, languageId, foundFiles, textDocuments, regexes,
                   regexIdx, uris, docs, allMatches, thrown, locations, allLocations,
                   grepped, notGrepVars>>

\* grep 161-170: the file is a dirty open document of the language.
GrepLiveFile ==
    /\ pc = "files" /\ fileIdx < Len(uris)
    /\ LET fileName == uris[fileIdx + 1]
       IN /\ IndexOf(fileName, rootFolder) >= 0
          /\ HasTextDocument(fileName, docs)
          /\ allMatches' =
                MapSet(allMatches, fileName,
                       WithFilePath(GrepTextDocument(regexes[regexIdx + 1],
                                       GetTextDocument(fileName, docs).lines, 0),
                                    fileName))
    /\ fileIdx' = fileIdx + 1
    /\ UNCHANGED <<pc, rootFolder, languageId, foundFiles, textDocuments, regexes,
                   regexIdx, uris, docs, thrown, locations, allLocations, grepped,
                   notGrepVars>>

\* grep 171-225: the file is read from disk and scanned.
GrepDiskFile ==
    /\ pc = "files" /\ fileIdx < Len(uris)
    /\ LET fileName == uris[fileIdx + 1]
           before == IF MapHas(allMatches, fileName)
                     THEN [set |-> TRUE, items |-> MapGet(allMatches, fileName)]
                     ELSE [set |-> FALSE, items |-> <<>>]
           fm == ScanDisk(regexes[regexIdx + 1], Split(DiskText(fileName)), 0, before)
       IN /\ IndexOf(fileName, rootFolder) >= 0
          /\ ~HasTextDocument(fileName, docs)
          /\ allMatches' = IF fm.set
                           THEN MapSet(allMatches, fileName,
                                       WithFilePath(fm.items, fileName))
                           ELSE allMatches
    /\ fileIdx' = fileIdx + 1
    /\ UNCHANGED <<pc, rootFolder, languageId, foundFiles, textDocuments, regexes,
                   regexIdx, uris, docs, thrown, locations, allLocations, grepped,
                   notGrepVars>>

\* Mutant of GrepFileThrows: the catch block drops what was accumulated.
GrepFileThrowsLosesMatches ==
    /\ pc = "files" /\ fileIdx < Len(uris)
    /\ IndexOf(uris[fileIdx + 1], rootFolder) >= 0
    /\ thrown' = TRUE
    /\ allMatches' = <<>>
    /\ pc' = "caught"
    /\ UNCHANGED <<rootFolder, languageId, foundFiles, textDocuments, regexes,
                   regexIdx, uris, docs, fileIdx, locations, allLocations,
                   grepped, notGrepVars>>

\* grep 176 (or 163), 228-230: reading or scanning the file throws before
\* anything of it is stored; the exception is caught and logged.
GrepFileThrows ==
    /\ pc = "files" /\ fileIdx < Len(uris)
    /\ IndexOf(uris[fileIdx + 1], rootFolder) >= 0
    /\ thrown' = TRUE
    /\ pc' = "caught"
    /\ UNCHANGED <<rootFolder, languageId, foundFiles, textDocuments, regexes,
                   regexIdx, uris, docs, fileIdx, allMatches, locations, allLocations,
                   grepped, notGrepVars>>

\* grep 232-251: after the loop or the catch, convert and return.
GrepConvert ==
    /\ \/ pc = "files" /\ fileIdx = Len(uris)
       \/ pc = "caught"
    /\ locations' = ToLocations(allMatches)
    /\ pc' = "grepReturned"
    /\ UNCHANGED <<rootFolder, languageId, foundFiles, textDocuments, regexes,
                   regexIdx, uris, docs, fileIdx, allMatches, thrown, allLocations,
                   grepped, notGrepVars>>

\* grepMultiple 268-270: the locations of this regex are added.
GrepMultipleNext ==
    /\ pc = "grepReturned"
    /\ allLocations' = allLocations \o locations
    /\ grepped' = Append(grepped, locations)
    /\ regexIdx' = regexIdx + 1
    /\ pc' = "multi"
    /\ UNCHANGED <<rootFolder, languageId, foundFiles, textDocuments, regexes,
                   uris, docs, fileIdx, allMatches, thrown, locations, notGrepVars>>

\* grepMultiple 273-283: remove double entries and return.
GrepMultipleReturn ==
    /\ pc = "multi" /\ regexIdx = Len(regexes)
    /\ allLocations' = IF Len(regexes) > 0 THEN RemoveDuplicates(allLocations)
                       ELSE allLocations
    /\ pc' = "multiDone"
    /\ UNCHANGED <<rootFolder, languageId, foundFiles, textDocuments, regexes,
                   regexIdx, uris, docs, fileIdx, allMatches, thrown, locations,
                   grepped, notGrepVars>>

NextGrep ==
    \/ GrepEnumerate
    \/ GrepEnumerateThrows
    \/ GrepSkipFile
    \/ GrepLiveFile
    \/ GrepDiskFile
    \/ GrepFileThrows
    \/ GrepConvert
    \/ GrepMultipleNext
    \/ GrepMultipleReturn

SpecGrep == InitGrep /\ [][NextGrep]_vars

\* rootFolder is a leading prefix of the path.
IsUnder(path, root) == Len(path) >= Len(root) /\ SubSeq(path, 1, Len(root)) = root

\* C6 as claimed: every location grep returns lies in a file whose path has
\* rootFolder as a leading prefix; a file found elsewhere contributes nothing.
C6_LocationsUnderRoot ==
    pc = "grepReturned" =>
        \A i \in 1..Len(locations) : IsUnder(locations[i].fsPath, rootFolder)

\* What scanning one candidate file contributes, told from the file alone.
FileContribution(re, fileName, ds) ==
    IF IndexOf(fileName, rootFolder) < 0 THEN <<>>
    ELSE LET raw == IF HasTextDocument(fileName, ds)
                    THEN GrepTextDocument(re, GetTextDocument(fileName, ds).lines, 0)
                    ELSE ScanDisk(re, Split(DiskText(fileName)), 0,
                                  [set |-> FALSE, items |-> <<>>]).items
         IN [i \in 1..Len(raw) |->
                [fsPath |-> fileName, line |-> raw[i].line, start |-> raw[i].start,
                 end |-> raw[i].end, filePath |-> fileName,
                 lineContents |-> raw[i].lineContents,
                 symbol |-> GetCompleteLabel(raw[i].lineContents, raw[i].start)]]

RECURSIVE ContributionsUpTo(_, _, _, _)
\* The contributions of the first k files, in order.
ContributionsUpTo(re, files, k, ds) ==
    IF k = 0 THEN <<>>
    ELSE ContributionsUpTo(re, files, k - 1, ds) \o FileContribution(re, files[k], ds)

\* C7: grep always returns: whether the file search or the file after the
\* first fileIdx files threw, the result is exactly the locations of the
\* matches of the files scanned before, none lost, and nothing is scanned
\* after the failure.
C7_GrepReturnsAccumulated ==
    /\ pc \in {"multi", "files", "caught", "grepReturned", "multiDone"}
    /\ pc = "caught" => ENABLED GrepConvert
    /\ pc = "grepReturned" =>
          locations = ContributionsUpTo(regexes[regexIdx + 1], uris, fileIdx, docs)

\* C7 witness: the second file threw and the matches of the first are returned.
C7_Witness ==
    /\ pc = "grepReturned" /\ thrown /\ fileIdx = 1 /\ Len(uris) = 2
    /\ locations # <<>>
    /\ \A i \in 1..Len(locations) : locations[i].fsPath = uris[1]

Triple(loc) == <<loc.filePath, loc.line, loc.start>>

\* C4: the result of grepMultiple holds no two locations with the same
\* (file path, line, start column), and every triple some grep call produced
\* is that of exactly one location of the result.
C4_GrepMultipleDeduplicates ==
    pc = "multiDone" =>
        /\ \A i, j \in 1..Len(allLocations) :
              i # j => Triple(allLocations[i]) # Triple(allLocations[j])
        /\ \A g \in 1..Len(grepped) : \A i \in 1..Len(grepped[g]) :
              Cardinality({j \in 1..Len(allLocations) :
                             Triple(allLocations[j]) = Triple(grepped[g][i])}) = 1

\* C4 witness: two regexes matched the same triple and the result holds it once.
C4_Witness ==
    /\ pc = "multiDone" /\ Len(grepped) = 2
    /\ \E i \in 1..Len(grepped[1]) : \E j \in 1..Len(grepped[2]) :
          Triple(grepped[1][i]) = Triple(grepped[2][j])
    /\ \E i, j \in 1..Len(grepped[1]) :
          i # j /\ grepped[1][i].line = grepped[1][j].line
    /\ Len(allLocations) < Len(grepped[1]) + Len(grepped[2])

(***************************************************************************)
(* reduceLocations.  Files are sequences of lines in the abstraction of    *)
(* getModule; a CODE line carries the label that stands on it.  The        *)
(* locations are objects shared between the argument and the result: they  *)
(* are named by their position in the argument, and 'locLabels' holds the  *)
(* label and moduleLabel fields assigned to them.                          *)
(***************************************************************************)
Code(name) == [kind |-> "CODE", name |-> name]
ModuleA == [kind |-> "MODULE", name |-> <<"a">>]
StructB == [kind |-> "STRUCT", name |-> <<"b">>]
EndModule == [kind |-> "ENDMODULE", name |-> <<>>]
LabelI == <<"i">>
LabelJ == <<"j">>
LabelAI == <<"a", ".", "i">>

\* getLinesForFile, disk branch: the lines of the two files on disk.
ReduceDiskLines(path) ==
    IF path = PathX
    THEN << ModuleA, Code(LabelI), Code(LabelJ), EndModule,
            Code(LabelAI), StructB, Code(LabelAI), Code(LabelI) >>
    ELSE << Code(LabelJ), Code(LabelI), Code(LabelI) >>

\* The unsaved text of PathY, when it is open and edited.
EditedY ==
    [fileName |-> PathY, isDirty |-> TRUE, languageId |-> "asm-collection",
     lines |-> << ModuleA, Code(LabelI), Code(LabelJ) >>]

\* getLinesForFile(filePath, documents)
GetLinesForFile(filePath, documents) ==
    IF HasTextDocument(filePath, documents)
    THEN GetTextDocument(filePath, documents).lines
    ELSE ReduceDiskLines(filePath)

\* getLabelAndModuleLabelFromFileInfo: the label at the position and the
\* label prefixed by the modules open at its line.
GetLabelAndModuleLabel(fileInfo, line) ==
    LET lbl == fileInfo.lines[line + 1].name
        mod == GetModule(fileInfo.lines, line)
    IN [label |-> lbl,
        moduleLabel |-> IF mod = <<>> THEN lbl ELSE mod \o <<".">> \o lbl]

RECURSIVE MatchHere(_, _, _)
\* The tokens match s from the 1-based position pos on.
MatchHere(toks, s, pos) ==
    IF toks = <<>> THEN TRUE
    ELSE IF toks[1] = Wild
         THEN \E k \in 0..(Len(s) - pos + 1) :
                 /\ \A j \in pos..(pos + k - 1) : s[j] \in WordChars \cup {"i", "j"}
                 /\ MatchHere(Tail(toks), s, pos + k)
    ELSE /\ pos <= Len(s)
         /\ CASE toks[1] = "." -> TRUE
              [] toks[1] = EscDot -> s[pos] = "."
              [] OTHER -> s[pos] = toks[1]
         /\ MatchHere(Tail(toks), s, pos + 1)

\* regex.exec(s) finds a match (the regex has no anchors).
RegexMatches(re, s) == \E pos \in 1..(Len(s) + 1) : MatchHere(re.source, s, pos)

\* Mutant of ExactMatch: the two cross tests are left out.
ExactMatchNoCross(m, search) ==
    \/ m.label = search.label
    \/ m.moduleLabel = search.moduleLabel

\* grep 494-497: the four tests of the exact mode.
ExactMatch(m, search) ==
    \/ m.label = search.label
    \/ m.moduleLabel = search.moduleLabel
    \/ m.moduleLabel = search.label
    \/ m.label = search.moduleLabel

\* grep 502-505: the four tests of the loose mode.
LooseMatch(m, search) ==
    LET regexLabel == GetRegExFromLabel(search.label)
        regexModuleLabel == GetRegExFromLabel(search.moduleLabel)
    IN \/ RegexMatches(regexLabel, m.label)
       \/ RegexMatches(regexModuleLabel, m.moduleLabel)
       \/ RegexMatches(regexLabel, m.moduleLabel)
       \/ RegexMatches(regexModuleLabel, m.label)

\* Array.prototype.splice(i, 1) at the 1-based position i.
Splice1(s, i) == SubSeq(s, 1, i - 1) \o SubSeq(s, i + 1, Len(s))

\* The CODE lines of both files, as locations.
ReducePositions ==
    {[fsPath |-> PathX, line |-> l, character |-> 0] : l \in {1, 2, 4, 6, 7}}
      \cup {[fsPath |-> PathY, line |-> l, character |-> 0] : l \in {1, 2}}

\* Where the search starts from.
ReduceOrigins ==
    {[fsPath |-> PathX, line |-> 1], [fsPath |-> PathX, line |-> 4],
     [fsPath |-> PathX, line |-> 6], [fsPath |-> PathY, line |-> 1]}

NoLabels == [label |-> <<>>, moduleLabel |-> <<>>, assigned |-> FALSE]

InitReduce ==
    /\ pc = "reduce"
    /\ NotReduceIdle
    /\ redTextDocuments \in {<<>>, <<EditedY>>}
    /\ redLocations \in SeqsUpTo(ReducePositions, MaxLocations)
    /\ \E o \in ReduceOrigins :
          /\ docFileName = o.fsPath
          /\ position = [line |-> o.line, character |-> 0]
    /\ removeOwnLocation \in BOOLEAN
    /\ checkFullName \in BOOLEAN
    /\ redDocs = <<>>
    /\ searchLabel = NoLabels
    /\ redLocs = <<>>
    /\ redI = 0
    /\ filesInfo = <<>>
    /\ locLabels = [k \in 1..Len(redLocations) |-> NoLabels]
    /\ fileReads = <<>>

\* grep 430-457: the origin's labels, the copy of the list, the empty cache.
ReduceBegin ==
    /\ pc = "reduce"
    /\ redDocs' = SelectSeq(redTextDocuments, LAMBDA d : d.isDirty)
    /\ LET docLines == GetLinesForFile(docFileName, redDocs')
           m == GetLabelAndModuleLabel([lines |-> docLines], position.line)
       IN searchLabel' = [label |-> m.label, moduleLabel |-> m.moduleLabel,
                          assigned |-> TRUE]
    /\ fileReads' = <<docFileName>>
    /\ redLocs' = [k \in 1..Len(redLocations) |-> k]
    /\ redI' = Len(redLocations)
    /\ filesInfo' = <<>>
    /\ pc' = "loop"
    /\ UNCHANGED <<redTextDocuments, redLocations, docFileName, position,
                   removeOwnLocation, checkFullName, locLabels, notReduceVars>>

\* grep 465-475: the file's info, from the cache or read now.  filesInfo is
\* used through property access (filesInfo[fileName]), which stores and
\* finds one entry per file name.
FileInfoOf(fileName) ==
    IF MapHas(filesInfo, fileName) THEN MapGet(filesInfo, fileName)
    ELSE [lines |-> GetLinesForFile(fileName, redDocs)]

Visit(fileName) ==
    /\ filesInfo' = IF MapHas(filesInfo, fileName) THEN filesInfo
                    ELSE MapSet(filesInfo, fileName, FileInfoOf(fileName))
    /\ fileReads' = IF MapHas(filesInfo, fileName) THEN fileReads
                    ELSE Append(fileReads, fileName)

\* grep 478-480: the test for the origin's own location.
IsOwnLocation(loc, fileName) ==
    /\ removeOwnLocation
    /\ loc.line = position.line
    /\ fileName = fileName

\* The labels of the location under the loop index.
CurrentLabels ==
    LET loc == redLocations[redLocs[redI]]
        m == GetLabelAndModuleLabel(FileInfoOf(loc.fsPath), loc.line)
    IN [label |-> m.label, moduleLabel |-> m.moduleLabel, assigned |-> TRUE]

Matches(m) ==
    IF checkFullName THEN ExactMatch(m, searchLabel) ELSE LooseMatch(m, searchLabel)

\* grep 477-486: the location is removed as the origin's own.
ReduceRemoveOwn ==
    /\ pc = "loop" /\ redI > 0
    /\ LET loc == redLocations[redLocs[redI]]
       IN /\ IsOwnLocation(loc, loc.fsPath)
          /\ Visit(loc.fsPath)
    /\ redLocs' = Splice1(redLocs, redI)
    /\ redI' = redI - 1
    /\ UNCHANGED <<pc, redTextDocuments, redLocations, docFileName, position,
                   removeOwnLocation, checkFullName, redDocs, searchLabel, locLabels,
                   notReduceVars>>

\* grep 488-506: the labels are assigned and one of the tests holds.
ReduceKeep ==
    /\ pc = "loop" /\ redI > 0
    /\ LET loc == redLocations[redLocs[redI]]
       IN /\ ~IsOwnLocation(loc, loc.fsPath)
          /\ Visit(loc.fsPath)
          /\ Matches(CurrentLabels)
    /\ locLabels' = [locLabels EXCEPT ![redLocs[redI]] = CurrentLabels]
    /\ redI' = redI - 1
    /\ UNCHANGED <<pc, redTextDocuments, redLocations, docFileName, position,
                   removeOwnLocation, checkFullName, redDocs, searchLabel, redLocs,
                   notReduceVars>>

\* grep 488-510: the labels are assigned, no test holds, the location goes.
ReduceDrop ==
    /\ pc = "loop" /\ redI > 0
    /\ LET loc == redLocations[redLocs[redI]]
       IN /\ ~IsOwnLocation(loc, loc.fsPath)
          /\ Visit(loc.fsPath)
          /\ ~Matches(CurrentLabels)
    /\ locLabels' = [locLabels EXCEPT ![redLocs[redI]] = CurrentLabels]
    /\ redLocs' = Splice1(redLocs, redI)
    /\ redI' = redI - 1
    /\ UNCHANGED <<pc, redTextDocuments, redLocations, docFileName, position,
                   removeOwnLocation, checkFullName, redDocs, searchLabel,
                   notReduceVars>>

\* grep 526-529: the loop is over, redLocs is returned.
ReduceReturn ==
    /\ pc = "loop" /\ redI = 0
    /\ pc' = "returned"
    /\ UNCHANGED <<redVars, notReduceVars>>

NextReduce ==
    \/ ReduceBegin
    \/ ReduceRemoveOwn
    \/ ReduceKeep
    \/ ReduceDrop
    \/ ReduceReturn

SpecReduce == InitReduce /\ [][NextReduce]_vars

\* The labels of an argument location, resolved from the lines a reader of
\* its file gets now.
Resolved(fsPath, line) ==
    GetLabelAndModuleLabel(
        [lines |-> GetLinesForFile(fsPath, SelectSeq(redTextDocuments, LAMBDA d : d.isDirty))],
        line)

FourWay(cand, origin) ==
    \/ cand.label = origin.label
    \/ cand.moduleLabel = origin.moduleLabel
    \/ cand.moduleLabel = origin.label
    \/ cand.label = origin.moduleLabel

OriginLabels == Resolved(docFileName, position.line)
CandidateLabels(k) == Resolved(redLocations[k].fsPath, redLocations[k].line)

\* The positions of the argument, in order.
ArgumentOrder == [k \in 1..Len(redLocations) |-> k]

\* C2: in exact mode without own-location removal the result is exactly the
\* argument's locations that pass one of the four tests, in their original
\* order, each with label and moduleLabel set to its resolved values.
C2_ExactModeKeepsFourWayMatches ==
    (pc = "returned" /\ checkFullName /\ ~removeOwnLocation) =>
        /\ redLocs = SelectSeq(ArgumentOrder,
                              LAMBDA k : FourWay(CandidateLabels(k), OriginLabels))
        /\ \A n \in 1..Len(redLocs) :
              /\ locLabels[redLocs[n]].assigned
              /\ locLabels[redLocs[n]].label = CandidateLabels(redLocs[n]).label
              /\ locLabels[redLocs[n]].moduleLabel = CandidateLabels(redLocs[n]).moduleLabel

\* C2 witness: of three locations the middle one fails all four tests and is
\* dropped, and one is kept by a cross test alone.
C2_Witness ==
    /\ pc = "returned" /\ checkFullName /\ ~removeOwnLocation
    /\ Len(redLocations) = 3 /\ redLocs = <<1, 3>>
    /\ \E n \in 1..Len(redLocs) :
          LET c == CandidateLabels(redLocs[n])
          IN /\ c.label # OriginLabels.label
             /\ c.moduleLabel # OriginLabels.moduleLabel
             /\ FourWay(c, OriginLabels)

\* C3 as claimed: with removeOwnLocation a location is dropped as the
\* origin's own only on the origin's line of the origin's file; any other
\* location, one on the same line number of another file included, is kept
\* or dropped by the match test alone.
C3_OwnLocationIsInOriginFile ==
    (pc = "returned" /\ removeOwnLocation) =>
        \A k \in 1..Len(redLocations) :
            LET own == /\ redLocations[k].fsPath = docFileName
                       /\ redLocations[k].line = position.line
                kept == \E n \in 1..Len(redLocs) : redLocs[n] = k
                c == CandidateLabels(k)
            IN kept <=> (~own /\ IF checkFullName THEN FourWay(c, OriginLabels)
                                  ELSE LooseMatch(c, OriginLabels))

(***************************************************************************)
(* RenameProvider.rename and renameInFile.  The disk holds the text of two *)
(* files.  renameInFile is an async function that rename calls without     *)
(* awaiting it: its body runs up to the 'await' inside the call, an        *)
(* exception in it rejects a promise nobody holds, and the stream it       *)
(* creates writes, or fails, after rename has returned.                    *)
(***************************************************************************)
\* The word under the cursor and the language of its document (rename 56-59).
OldName == <<"a", "a">>
RenameLanguageId == "asm-collection"
RenameRegex == [global |-> TRUE, group |-> TRUE, word |-> OldName]

\* CommonRegexes.regexInclude() matches the line: "I" stands for the
\* directive keyword together with the quoted path that follows it.
IsIncludeLine(line) == \E i \in 1..Len(line) : line[i] = "I"

RenameLinePool == { <<"a", "a", " ", "a", "a">>, <<"I", " ", "a", "a">>, <<" ">> }
RenameFilesX == UNION {[1..n -> RenameLinePool] : n \in 1..MaxRenameLines}
RenameFilesY == { << <<"a", "a">> >>, << <<"I", " ", "a", "a">> >> }
\* Shorter than the old name, as long, longer.
NewNames == { <<"b">>, <<"b", "b">>, <<"b", "b", "b">> }

\* The open documents: none, PathY unchanged since it was loaded, or PathY
\* with unsaved text, in the language of the search or switched to the
\* other language.
RenameDocuments(d) ==
    { <<>>,
      << [fileName |-> PathY, isDirty |-> FALSE, languageId |-> "asm-collection",
          lines |-> Split(d[PathY])] >> }
    \cup { << [fileName |-> PathY, isDirty |-> TRUE, languageId |-> l,
               lines |-> << <<" ", "a", "a", " ", "a", "a">> >>] >> : l \in LanguageIds }

\* Mutant of RenameGrepFile: the disk scan delivers a line's matches in the
\* order of the document scan.
RenameGrepFileDocOrder(path, d, documents) ==
    LET dirty == SelectSeq(documents,
                          LAMBDA doc : doc.isDirty /\ doc.languageId = RenameLanguageId)
        live == HasTextDocument(path, dirty)
        ms == IF live
              THEN GrepTextDocument(RenameRegex, GetTextDocument(path, dirty).lines, 0)
              ELSE GrepTextDocument(RenameRegex, Split(d[path]), 0)
    IN [i \in 1..Len(ms) |->
          [fsPath |-> path, line |-> ms[i].line, start |-> ms[i].start, end |-> ms[i].end,
           scanned |-> IF live THEN "buffer" ELSE "disk"]]

\* grep(searchRegex, rootFolder, languageId) for one file (grep 148-225):
\* the document if it is dirty and of the language, the disk otherwise.
\* 'scanned' is history: which of the two texts the match was found in.
RenameGrepFile(path, d, documents) ==
    LET dirty == SelectSeq(documents,
                          LAMBDA doc : doc.isDirty /\ doc.languageId = RenameLanguageId)
        live == HasTextDocument(path, dirty)
        ms == IF live
              THEN GrepTextDocument(RenameRegex, GetTextDocument(path, dirty).lines, 0)
              ELSE ScanDisk(RenameRegex, Split(d[path]), 0,
                            [set |-> FALSE, items |-> <<>>]).items
    IN [i \in 1..Len(ms) |->
          [fsPath |-> path, line |-> ms[i].line, start |-> ms[i].start, end |-> ms[i].end,
           scanned |-> IF live THEN "buffer" ELSE "disk"]]

RenameGrep(d, documents) ==
    RenameGrepFile(PathX, d, documents) \o RenameGrepFile(PathY, d, documents)

RECURSIVE Masked(_, _, _)
\* The elements of s from position k on whose mask is set, in order.
Masked(s, mask, k) ==
    IF k > Len(s) THEN <<>>
    ELSE (IF mask[k] THEN <<s[k]>> ELSE <<>>) \o Masked(s, mask, k + 1)

\* reduceLocations 430-475 for the locations it keeps: 'resolved' is
\* history, which text the labels of the location were resolved against.
WithResolved(locs, documents) ==
    LET dirty == SelectSeq(documents, LAMBDA doc : doc.isDirty)
    IN [i \in 1..Len(locs) |->
          [fsPath |-> locs[i].fsPath, line |-> locs[i].line,
           start |-> locs[i].start, end |-> locs[i].end, scanned |-> locs[i].scanned,
           resolved |-> IF HasTextDocument(locs[i].fsPath, dirty) THEN "buffer" ELSE "disk"]]

RECURSIVE Partition(_, _, _, _)
\* rename 79-101: the text edits of the files with a dirty document and
\* the ranges per file of the others.
Partition(locs, dirty, edits, fm) ==
    IF locs = <<>> THEN [wsEdit |-> edits, fileMap |-> fm]
    ELSE LET loc == Head(locs)
         IN IF HasTextDocument(loc.fsPath, dirty)
            THEN Partition(Tail(locs), dirty,
                           Append(edits, [fsPath |-> loc.fsPath, line |-> loc.line,
                                          start |-> loc.start, end |-> loc.end,
                                          text |-> newName, scanned |-> loc.scanned,
                                          resolved |-> loc.resolved]),
                           fm)
            ELSE LET old == IF MapHas(fm, loc.fsPath) THEN MapGet(fm, loc.fsPath) ELSE <<>>
                 IN Partition(Tail(locs), dirty, edits,
                              MapSet(fm, loc.fsPath, Append(old, loc)))

RECURSIVE ApplyChangesNoSkip(_, _, _)
\* Mutant of ApplyChanges: include lines are spliced like any other line.
ApplyChangesNoSkip(ls, changes, name) ==
    IF changes = <<>> THEN ls
    ELSE LET range == Head(changes)
             line == ls[range.line + 1]
             replacedLine == Substring(line, 0, range.start) \o name
                                \o SubstringFrom(line, range.end)
         IN ApplyChangesNoSkip([ls EXCEPT ![range.line + 1] = replacedLine],
                               Tail(changes), name)

RECURSIVE ApplyChanges(_, _, _)
\* renameInFile 127-141: the lines after all changes.
ApplyChanges(ls, changes, name) ==
    IF changes = <<>> THEN ls
    ELSE LET range == Head(changes)
             line == ls[range.line + 1]
             replacedLine == Substring(line, 0, range.start) \o name
                                \o SubstringFrom(line, range.end)
         IN IF IsIncludeLine(line)
            THEN ApplyChanges(ls, Tail(changes), name)
            ELSE ApplyChanges([ls EXCEPT ![range.line + 1] = replacedLine],
                              Tail(changes), name)

InitRename ==
    /\ pc = "rename"
    /\ NotRenameIdle
    /\ \E x \in RenameFilesX, y \in RenameFilesY :
          disk = [p \in {PathX, PathY} |->
                    JoinWith(IF p = PathX THEN x ELSE y, <<"\n">>)]
    /\ renTextDocuments \in RenameDocuments(disk)
    /\ newName \in NewNames
    /\ reducedLocations = <<>>
    /\ wsEdit = <<>>
    /\ fileMap = <<>>
    /\ fileMapIdx = 0
    /\ pendingWrites = <<>>
    /\ rewrites = <<>>
    /\ written = {}
    /\ rejected = {}
    /\ writeFailed = {}

\* rename 56-101: the grep, the reduction (some of the locations, in their
\* order) and the partition.
RenameCollect ==
    /\ pc = "rename"
    /\ LET locs == RenameGrep(disk, renTextDocuments)
       IN \E mask \in [1..Len(locs) -> BOOLEAN] :
             reducedLocations' = WithResolved(Masked(locs, mask, 1), renTextDocuments)
    /\ LET dirty == SelectSeq(renTextDocuments, LAMBDA doc : doc.isDirty)
           parts == Partition(reducedLocations', dirty, <<>>, <<>>)
       IN /\ wsEdit' = parts.wsEdit
          /\ fileMap' = parts.fileMap
    /\ fileMapIdx' = 1
    /\ pc' = "apply"
    /\ UNCHANGED <<disk, renTextDocuments, newName, pendingWrites, rewrites, written,
                   rejected, writeFailed, notRenameVars>>

\* rename 104-105 with renameInFile 118-148: the file is read, the ranges
\* are spliced in, the text is handed to a new write stream.
RenameInFile ==
    /\ pc = "apply" /\ fileMapIdx <= Len(fileMap)
    /\ LET fsPath == fileMap[fileMapIdx].key
           changes == fileMap[fileMapIdx].value
           ls == Split(disk[fsPath])
           replacedText == JoinWith(ApplyChanges(ls, changes, newName), <<"\n">>)
       IN /\ pendingWrites' = Append(pendingWrites, [fsPath |-> fsPath, text |-> replacedText])
          /\ rewrites' = Append(rewrites, [fsPath |-> fsPath, before |-> ls,
                                           changes |-> changes, text |-> replacedText])
    /\ fileMapIdx' = fileMapIdx + 1
    /\ UNCHANGED <<pc, disk, renTextDocuments, newName, reducedLocations, wsEdit, fileMap,
                   written, rejected, writeFailed, notRenameVars>>

\* rename 104-105 with renameInFile 122: readFileSync throws.  The promise
\* of the call is rejected; rename does not hold it and goes on.
RenameInFileReadThrows ==
    /\ pc = "apply" /\ fileMapIdx <= Len(fileMap)
    /\ rejected' = rejected \cup {fileMap[fileMapIdx].key}
    /\ fileMapIdx' = fileMapIdx + 1
    /\ UNCHANGED <<pc, disk, renTextDocuments, newName, reducedLocations, wsEdit, fileMap,
                   pendingWrites, rewrites, written, writeFailed, notRenameVars>>

\* rename 108: the promise of rename is fulfilled with wsEdit.
RenameReturn ==
    /\ pc = "apply" /\ fileMapIdx > Len(fileMap)
    /\ pc' = "renameReturned"
    /\ UNCHANGED <<renVars, notRenameVars>>

\* A write stream writes its text and is closed.
WriteCompletes ==
    /\ pc = "renameReturned"
    /\ \E k \in 1..Len(pendingWrites) :
          /\ disk' = [disk EXCEPT ![pendingWrites[k].fsPath] = pendingWrites[k].text]
          /\ written' = written \cup {pendingWrites[k].fsPath}
          /\ pendingWrites' = Splice1(pendingWrites, k)
    /\ UNCHANGED <<pc, renTextDocuments, newName, reducedLocations, wsEdit, fileMap,
                   fileMapIdx, rewrites, rejected, writeFailed, notRenameVars>>

\* A write stream fails: the file cannot be opened for writing and keeps
\* its text, or it has been truncated and the text does not reach it.
WriteFails ==
    /\ pc = "renameReturned"
    /\ \E k \in 1..Len(pendingWrites) :
          /\ disk' \in {disk, [disk EXCEPT ![pendingWrites[k].fsPath] = <<>>]}
          /\ writeFailed' = writeFailed \cup {pendingWrites[k].fsPath}
          /\ pendingWrites' = Splice1(pendingWrites, k)
    /\ UNCHANGED <<pc, renTextDocuments, newName, reducedLocations, wsEdit, fileMap,
                   fileMapIdx, rewrites, written, rejected, notRenameVars>>

NextRename ==
    \/ RenameCollect
    \/ RenameInFile
    \/ RenameInFileReadThrows
    \/ RenameReturn
    \/ WriteCompletes
    \/ WriteFails

SpecRename == InitRename /\ [][NextRename]_vars

\* Row r (0-based) has a pending range among the changes.
HasPendingRange(changes, r) == \E k \in 1..Len(changes) : changes[k].line = r

\* C8: in every file renameInFile rewrites, a line that matches the include
\* pattern is written back as it was read whatever ranges are pending on
\* it, and so is every line with no pending range; the file keeps its
\* number of lines, and a completed write leaves exactly that text on disk.
C8_IncludeAndUntouchedLinesUnchanged ==
    \A n \in 1..Len(rewrites) :
        LET rec == rewrites[n]
            out == Split(rec.text)
        IN /\ Len(out) = Len(rec.before)
           /\ \A r \in 1..Len(rec.before) :
                 (IsIncludeLine(rec.before[r]) \/ ~HasPendingRange(rec.changes, r - 1))
                    => out[r] = rec.before[r]
           /\ rec.fsPath \in written => disk[rec.fsPath] = rec.text

\* C8 witness: a rewritten and written file with an include line that holds
\* the old name under a pending range, a line with no pending range, and a
\* line that was changed.
C8_Witness ==
    \E n \in 1..Len(rewrites) :
        LET rec == rewrites[n]
            out == Split(rec.text)
        IN /\ rec.fsPath \in written
           /\ \E r \in 1..Len(rec.before) :
                 /\ IsIncludeLine(rec.before[r])
                 /\ HasPendingRange(rec.changes, r - 1)
                 /\ Occurrences(rec.before[r], OldName) # {}
           /\ \E r \in 1..Len(rec.before) :
                 /\ ~HasPendingRange(rec.changes, r - 1)
                 /\ Occurrences(rec.before[r], OldName) # {}
           /\ \E r \in 1..Len(rec.before) : out[r] # rec.before[r]

\* C9 as claimed: rename does not return its edit set normally once the
\* rewrite of a disk file has failed on a read or on a write.
C9_RewriteFailureFailsRename ==
    pc = "renameReturned" => (rejected = {} /\ writeFailed = {})

(***************************************************************************)
(* reduceLocations: the reads of the files.                                *)
(***************************************************************************)
\* C11 as claimed: during one reduceLocations call no file, the origin's
\* file included, has its lines read more than once.
C11_EachFileReadOnce ==
    \A i, j \in 1..Len(fileReads) : fileReads[i] = fileReads[j] => i = j

(***************************************************************************)
(* getModule: the stack under arbitrary nesting.                           *)
(***************************************************************************)
\* C12: a close row removes exactly the innermost entry of the stack,
\* whatever its name or the kind of the close, and keeps the outer ones; on
\* an empty stack it changes nothing; an open row appends its name; so the
\* stack is at every row the names of the scopes opened and not yet closed
\* by a later close, and the result is the join of that stack.
C12_ClosePopsInnermostOnly ==
    /\ [](pc = "scan" => modules = OpenNames(lines, 1, row))
    /\ [](pc = "done" => mLabel = JoinWith(modules, <<".">>))
    /\ [][ /\ GetModuleClose =>
               /\ modules = <<>> => modules' = <<>>
               /\ modules # <<>> =>
                     /\ Len(modules') = Len(modules) - 1
                     /\ \A k \in 1..Len(modules') : modules'[k] = modules[k]
          /\ GetModuleOpen =>
               /\ Len(modules') = Len(modules) + 1
               /\ modules'[Len(modules')] = lines[row + 1].name
               /\ \A k \in 1..Len(modules) : modules'[k] = modules[k] ]_vars

\* C12 witness: a close row met on the empty stack, a scope opened after it
\* and still on the stack, and a MODULE scope with an outer scope closed by
\* an ENDSTRUCT.
C12_Witness ==
    /\ pc = "done" /\ modules # <<>>
    /\ \E j \in 1..len :
          /\ IsCloseLine(lines[j]) /\ MatchingOpen(lines, j) = 0
          /\ \E i \in (j + 1)..len : StillOpen(lines, i, len)
    /\ \E j \in 1..len :
          /\ lines[j].kind = "ENDSTRUCT"
          /\ MatchingOpen(lines, j) > 0
          /\ lines[MatchingOpen(lines, j)].kind = "MODULE"
          /\ \E i \in 1..(MatchingOpen(lines, j) - 1) : StillOpen(lines, i, len)

(***************************************************************************)
(* The scan of a disk file against the scan of a document.                 *)
(***************************************************************************)
Raw(items) ==
    [k \in 1..Len(items) |-> <<items[k].line, items[k].start, items[k].end>>]
Reverse(s) == [k \in 1..Len(s) |-> s[Len(s) + 1 - k]]
OfLine(raw, idx) == SelectSeq(raw, LAMBDA t : t[1] = idx)
LinesAscend(raw) == \A k \in 1..(Len(raw) - 1) : raw[k][1] <= raw[k + 1][1]

\* The raw matches of the scan that has run, and of the other scan run on
\* the same lines with the same regex.
DiskScanOf(re, ls) == Raw(ScanDisk(re, ls, 0, [set |-> FALSE, items |-> <<>>]).items)
DocScanOf(re, ls) == Raw(GrepTextDocument(re, ls, 0))
ScanRun == Raw(fileMatches.items)
ScanOther ==
    IF scanMode = "disk" THEN DocScanOf(scanRegex, scanLines)
    ELSE DiskScanOf(scanRegex, scanLines)

\* C13 as claimed: the disk scan and the document scan of the same lines
\* with the same regex give the same sequence of (line, start, end).
C13_SameSequence == pc = "done" => ScanRun = ScanOther

\* C13, amended: both scans give the same (line, start, end) records with
\* the lines in ascending order; the matches of one line stand in ascending
\* column order in the document scan and in the reverse, descending, order
\* in the disk scan; an empty line gives no record in either.
C13_SameMatchesReversedPerLine ==
    pc = "done" =>
        /\ Len(ScanRun) = Len(ScanOther)
        /\ LinesAscend(ScanRun) /\ LinesAscend(ScanOther)
        /\ \A idx \in 0..(Len(scanLines) - 1) :
              /\ OfLine(ScanRun, idx) = Reverse(OfLine(ScanOther, idx))
              /\ scanLines[idx + 1] = <<>> => OfLine(ScanRun, idx) = <<>>
        /\ \A k \in 1..(Len(ScanRun) - 1) :
              ScanRun[k][1] = ScanRun[k + 1][1] =>
                 IF scanMode = "disk" THEN ScanRun[k][2] > ScanRun[k + 1][2]
                 ELSE ScanRun[k][2] < ScanRun[k + 1][2]

\* C13 witness: a disk scan with a global regex has run over an empty line
\* and a line with two matches, and the two scans differ in their order.
C13_Witness ==
    /\ pc = "done" /\ scanMode = "disk" /\ scanRegex.global
    /\ Len(scanLines) = 2 /\ scanLines[1] = <<>>
    /\ Len(OfLine(ScanRun, 1)) = 2
    /\ ScanRun # ScanOther

(***************************************************************************)
(* rename: several occurrences on one line of a disk file.                 *)
(***************************************************************************)
\* The column ranges <<start, end>> the changes hold for row r (0-based).
RangesOfRow(changes, r) ==
    {<<changes[k].start, changes[k].end>> : k \in {n \in 1..Len(changes) : changes[n].line = r}}

RECURSIVE ReplaceAtOnce(_, _, _, _)
\* 'line' from column p on, with every range replaced by 'name': the
\* columns are those of the original line.
ReplaceAtOnce(line, ranges, name, p) ==
    IF p >= Len(line) THEN <<>>
    ELSE IF \E rg \in ranges : rg[1] = p
         THEN name \o ReplaceAtOnce(line, ranges, name,
                                    (CHOOSE rg \in ranges : rg[1] = p)[2])
    ELSE <<line[p + 1]>> \o ReplaceAtOnce(line, ranges, name, p + 1)

C15_EachIterationAdvances ==
    [][ ScanExecMatch =>
           IF scanRegex.global THEN lastIndex' > lastIndex ELSE pc' = "line" ]_vars

\* The model stops following a scan only when it has collected MaxMatches
\* matches, which no scan with a search regex does.
ScanWithinMaxMatches ==
    Len(lineMatches) < MaxMatches /\ Len(fileMatches.items) < MaxMatches

(***************************************************************************)
(* rename: live buffer or disk, in grep, reduceLocations and rename.       *)
(***************************************************************************)
\* C16 as claimed: every location rename hands to the editor as an edit of
\* a live buffer was found by scanning that buffer and resolved against its
\* lines, and every range it splices into a disk file was found by scanning
\* the disk and resolved against the disk's lines, whatever the language id
\* of a dirty document.
C16_SameClassification ==
    pc # "rename" =>
        /\ \A k \in 1..Len(wsEdit) :
              wsEdit[k].scanned = "buffer" /\ wsEdit[k].resolved = "buffer"
        /\ \A f \in 1..Len(fileMap) : \A k \in 1..Len(fileMap[f].value) :
              /\ fileMap[f].value[k].scanned = "disk"
              /\ fileMap[f].value[k].resolved = "disk"

====
